---- MODULE Spec2Model ----
(***************************************************************************)
(* Release reconciliation of iOSAppMonitor: the Feishu bitable rows, the   *)
(* hierarchy resolver, ApplePackageRecord.get_latest_version and the       *)
(* per-record loop of monitor_apple.main (lookup, update_app_status,       *)
(* send_notifications).                                                    *)
(*                                                                         *)
(* Encoding of Python values:                                              *)
(*   None (string fields)  -> the value None                               *)
(*   None (integer fields) -> the value NoneInt                            *)
(*   a field dict          -> a TLA+ record whose DOMAIN is the key set    *)
(*   "提审中" / "已发布" / "五图" / "未知" -> InReview / Released /         *)
(*                                        ExcludedStage / UnknownStage     *)
(*   the 包状态 cell (a scalar or a list of values) -> the set of its      *)
(*   values: the scalar s is {s}, a missing cell is {}                     *)
(***************************************************************************)
EXTENDS FiniteSets, Integers, Sequences, TLC

VARIABLES
    table,              \* the bitable: record id -> field values of the row
    pc,                 \* position of main: "idle", "loop", "done"
    run,                \* number of runs started so far
    current_timestamp,  \* main's current_timestamp of the running run
    records,            \* main's filtered_records of the running run
    idx,                \* index of the next record of the for loop
    last,               \* what the latest pass of the for loop did
    released,           \* the releases so far: record id, whether the main
                        \* record's update was stored, whether it was in an
                        \* earlier run
    probe,              \* the record get_latest_version is applied to
    latest,             \* the value get_latest_version returned for probe
    resolved,           \* a call of get_records_by_status on its own: its
                        \* arguments, main_apps and the position in step 3
    dispatch,           \* the notifications of one release on their own:
                        \* the channel configurations, the digest and the
                        \* delivery attempts made so far
    env,                \* the settings main reads from the environment
    passes,             \* the passes of one run taken request by request:
                        \* the table the run found and the requests made
                        \* so far for each record
    listing             \* a call of get_all_records page by page: the pages the
                        \* server holds, page_token, all_records and the
                        \* pages requested so far

vars == <<table, pc, run, current_timestamp, records, idx, last, released,
          probe, latest, resolved, dispatch, env, passes, listing>>


----------------------------------------------------------------------------
(* Bounds *)

MaxRows == 3        \* rows of the bitable
MaxRuns == 2        \* reconciliation runs in one behaviour
MaxChildren == 3    \* children of the record given to get_latest_version
MaxTime == 2        \* largest submission_time
MaxChannels == 2    \* channel configurations of one dispatch
MaxPages == 2       \* pages of the listing get_all_records reads
MaxRequests == 3    \* page requests of one call of get_all_records

----------------------------------------------------------------------------
(* Python values *)

None == "None"
NoneInt == -9

InReview == "InReview"
Released == "Released"
ExcludedStage == "WuTu"
UnknownStage == "Unknown"

\* truth value of an Optional[str]: None and "" are falsy
TruthyStr(s) == s # None /\ s # ""

\* truth value of an Optional[int]: None and 0 are falsy
TruthyInt(n) == n # NoneInt /\ n # 0

Unset == "Unset"

----------------------------------------------------------------------------
(* ApplePackageRecord.get_latest_version *)

\* the loop over self.children; the result is the index of latest_child,
\* 0 when latest_child is None
RECURSIVE ScanChildren_LastWins(_, _, _, _)
ScanChildren_LastWins(children, i, latest_time, latest_child) ==
    IF i > Len(children) THEN latest_child
    ELSE LET t == children[i].submission_time IN
         IF TruthyInt(t) /\ t >= latest_time
         THEN ScanChildren_LastWins(children, i + 1, t, i)
         ELSE ScanChildren_LastWins(children, i + 1, latest_time, latest_child)

RECURSIVE ScanChildren_Earliest(_, _, _, _)
ScanChildren_Earliest(children, i, latest_time, latest_child) ==
    IF i > Len(children) THEN latest_child
    ELSE LET t == children[i].submission_time IN
         IF TruthyInt(t) /\ t > 0 /\ (latest_child = 0 \/ t < latest_time)
         THEN ScanChildren_Earliest(children, i + 1, t, i)
         ELSE ScanChildren_Earliest(children, i + 1, latest_time, latest_child)

RECURSIVE ScanChildren_AnyTime(_, _, _, _)
ScanChildren_AnyTime(children, i, latest_time, latest_child) ==
    IF i > Len(children) THEN latest_child
    ELSE LET t == children[i].submission_time IN
         IF latest_child = 0 \/ t > latest_time
         THEN ScanChildren_AnyTime(children, i + 1, t, i)
         ELSE ScanChildren_AnyTime(children, i + 1, latest_time, latest_child)

RECURSIVE ScanChildren(_, _, _, _)
ScanChildren(children, i, latest_time, latest_child) ==
    IF i > Len(children) THEN latest_child
    ELSE LET t == children[i].submission_time IN
         IF TruthyInt(t) /\ t > latest_time
         THEN ScanChildren(children, i + 1, t, i)
         ELSE ScanChildren(children, i + 1, latest_time, latest_child)

\* latest_child after the loop (an index into children, 0 for None)
LatestChild(children) == ScanChildren(children, 1, 0, 0)

get_latest_version_OwnVersionLost(record) ==
    IF record.children = <<>>
    THEN None
    ELSE LET latest_child == LatestChild(record.children) IN
         IF latest_child # 0 /\ TruthyStr(record.children[latest_child].version)
         THEN record.children[latest_child].version
         ELSE record.version

get_latest_version(record) ==
    IF record.children = <<>>
    THEN record.version
    ELSE LET latest_child == LatestChild(record.children) IN
         IF latest_child # 0 /\ TruthyStr(record.children[latest_child].version)
         THEN record.children[latest_child].version
         ELSE record.version

----------------------------------------------------------------------------
(* The bitable rows and ApplePackageRecord.from_feishu_fields *)

Ids == 1 .. MaxRows

\* one row of the bitable: the cells the reconciliation reads or writes.
\* parent is the 父记录 cell, a list of items with record_ids and text;
\* <<>> stands for a missing, null or empty cell.
Row(status, parent, apple_id, version, stage, submission_time) ==
    [status |-> status, parent |-> parent, apple_id |-> apple_id,
     version |-> version, stage |-> stage,
     submission_time |-> submission_time, approval_time |-> NoneInt]

\* a scalar cell value in the set encoding of the 包状态 cell
Scalar(s) == {s}

PackageName(record_id) == <<"app", record_id>>

parse_timestamp(value) == IF TruthyInt(value) THEN value ELSE NoneInt

from_feishu_fields(fields, record_id) ==
    [record_id |-> record_id,
     apple_id |-> fields.apple_id,
     package_name |-> PackageName(record_id),
     package_status |-> fields.status,
     version |-> fields.version,
     stage |-> fields.stage,
     submission_time |-> parse_timestamp(fields.submission_time),
     approval_time |-> parse_timestamp(fields.approval_time),
     children |-> <<>>]

----------------------------------------------------------------------------
(* FeishuBitableMonitor.get_all_records and get_records_by_status *)

\* the full listing, in row order
get_all_records(t) ==
    [i \in 1 .. MaxRows |-> [record_id |-> i, fields |-> t[i]]]

status_match_Always(fields, target_status) == TRUE

status_match(fields, target_status) == target_status \in fields.status

parent_empty_IdsOnly(fields) ==
    \A k \in 1 .. Len(fields.parent) : fields.parent[k].record_ids = {}

parent_empty_Ignored(fields) == TRUE

parent_empty(fields) ==
    \A k \in 1 .. Len(fields.parent) :
        /\ fields.parent[k].record_ids = {}
        /\ ~TruthyStr(fields.parent[k].text)

\* some item of the row's parent cell names main_id
points_to_AnyParent(fields, main_id) ==
    \E k \in 1 .. Len(fields.parent) : fields.parent[k].record_ids # {}

points_to(fields, main_id) ==
    \E k \in 1 .. Len(fields.parent) :
        /\ fields.parent[k].record_ids # {}
        /\ main_id \in fields.parent[k].record_ids

RECURSIVE main_apps_from(_, _, _)
main_apps_from(all_raw_records, i, target_status) ==
    IF i > Len(all_raw_records) THEN <<>>
    ELSE LET raw_record == all_raw_records[i]
             rest == main_apps_from(all_raw_records, i + 1, target_status)
         IN  IF /\ status_match(raw_record.fields, target_status)
                /\ parent_empty(raw_record.fields)
             THEN <<from_feishu_fields(raw_record.fields, raw_record.record_id)>>
                  \o rest
             ELSE rest

RECURSIVE children_from_Exclusive(_, _, _)
children_from_Exclusive(all_raw_records, i, main_id) ==
    IF i > Len(all_raw_records) THEN <<>>
    ELSE LET raw_record == all_raw_records[i]
             rest == children_from_Exclusive(all_raw_records, i + 1, main_id)
             first_named ==
                 \E k \in 1 .. Len(raw_record.fields.parent) :
                     /\ main_id \in raw_record.fields.parent[k].record_ids
                     /\ \A j \in raw_record.fields.parent[k].record_ids :
                            main_id <= j
         IN  IF first_named
             THEN <<from_feishu_fields(raw_record.fields, raw_record.record_id)>>
                  \o rest
             ELSE rest

RECURSIVE children_from_NoBreak(_, _, _)
children_from_NoBreak(all_raw_records, i, main_id) ==
    IF i > Len(all_raw_records) THEN <<>>
    ELSE LET raw_record == all_raw_records[i]
             rest == children_from_NoBreak(all_raw_records, i + 1, main_id)
             naming ==
                 SelectSeq(raw_record.fields.parent,
                           LAMBDA item : main_id \in item.record_ids)
         IN  [k \in 1 .. Len(naming) |->
                 from_feishu_fields(raw_record.fields, raw_record.record_id)]
             \o rest

RECURSIVE children_from(_, _, _)
children_from(all_raw_records, i, main_id) ==
    IF i > Len(all_raw_records) THEN <<>>
    ELSE LET raw_record == all_raw_records[i]
             rest == children_from(all_raw_records, i + 1, main_id)
         IN  IF points_to(raw_record.fields, main_id)
             THEN <<from_feishu_fields(raw_record.fields, raw_record.record_id)>>
                  \o rest
             ELSE rest

get_records_by_status(all_raw_records, target_status) ==
    LET main_apps == main_apps_from(all_raw_records, 1, target_status)
    IN  [m \in 1 .. Len(main_apps) |->
            [main_apps[m] EXCEPT
                !.children = children_from(all_raw_records, 1,
                                           main_apps[m].record_id)]]

----------------------------------------------------------------------------
(* FeishuBitableService.get_records_by_status: step 3 keeps a child only   *)
(* when its status is one of valid_child_statuses                          *)

valid_child_statuses == {InReview, Released}

status_valid(fields) == fields.status \cap valid_child_statuses # {}

RECURSIVE service_children_from(_, _, _)
service_children_from(all_raw_records, i, main_id) ==
    IF i > Len(all_raw_records) THEN <<>>
    ELSE LET raw_record == all_raw_records[i]
             rest == service_children_from(all_raw_records, i + 1, main_id)
         IN  IF /\ points_to(raw_record.fields, main_id)
                /\ status_valid(raw_record.fields)
             THEN <<from_feishu_fields(raw_record.fields, raw_record.record_id)>>
                  \o rest
             ELSE rest

----------------------------------------------------------------------------
\* main, step 4: drop the records whose stage is the excluded one
filter_stage_KeepsAll(recs, i) == recs

RECURSIVE filter_stage(_, _)
filter_stage(recs, i) ==
    IF i > Len(recs) THEN <<>>
    ELSE IF recs[i].stage # ExcludedStage
         THEN <<recs[i]>> \o filter_stage(recs, i + 1)
         ELSE filter_stage(recs, i + 1)

----------------------------------------------------------------------------
(* FeishuBitableMonitor.query_apple_app_status *)

StoreVersions == {"1.0", "1.1"}

\* what the lookup request can come back with: an exception (timeout, HTTP
\* error, bad JSON), resultCount = 0, or a first result with or without a
\* version
LookupResponses ==
    {[kind |-> "error", resultCount |-> 0, version |-> None],
     [kind |-> "json", resultCount |-> 0, version |-> None]}
    \cup {[kind |-> "json", resultCount |-> 1, version |-> v] :
             v \in StoreVersions \cup {None}}

\* the None the function returns when the request fails
NoStatus == [is_none |-> TRUE, is_online |-> FALSE, version |-> None]

query_apple_app_status(response) ==
    IF response.kind = "error" THEN NoStatus
    ELSE IF response.resultCount = 0
         THEN [is_none |-> FALSE, is_online |-> FALSE, version |-> None]
         ELSE [is_none |-> FALSE, is_online |-> TRUE,
               version |-> response.version]

----------------------------------------------------------------------------
(* FeishuBitableMonitor.update_record_fields and update_app_status *)

\* the row after a successful update of the cells named in fields
apply_fields(row, fields) ==
    [k \in DOMAIN row |-> IF k \in DOMAIN fields THEN fields[k] ELSE row[k]]

\* one update request: the table after it; success says whether the store
\* accepted it
update_record_fields(t, record_id, fields, success) ==
    IF success
    THEN [t EXCEPT ![record_id] = apply_fields(t[record_id], fields)]
    ELSE t

\* index of the first child whose version is latest_version, 0 for None
RECURSIVE find_target_child(_, _, _)
find_target_child(children, i, latest_version) ==
    IF i > Len(children) THEN 0
    ELSE IF children[i].version = latest_version THEN i
         ELSE find_target_child(children, i + 1, latest_version)

\* the update requests update_app_status issues, in order
update_app_status_MainTimed(record, latest_version, current_date_timestamp) ==
    LET update_child_fields ==
            [status |-> Scalar(Released),
             approval_time |-> current_date_timestamp]
        target_child == find_target_child(record.children, 1, latest_version)
        child_requests ==
            IF record.children # <<>> /\ target_child # 0
            THEN <<[record_id |-> record.children[target_child].record_id,
                    fields |-> [status |-> Scalar(Released)]]>>
            ELSE <<>>
    IN  child_requests
        \o <<[record_id |-> record.record_id, fields |-> update_child_fields]>>

update_app_status_TwoWrites(record, latest_version, current_date_timestamp) ==
    LET update_child_fields ==
            [status |-> Scalar(Released),
             approval_time |-> current_date_timestamp]
        target_child == find_target_child(record.children, 1, latest_version)
        child_requests ==
            IF record.children # <<>> /\ target_child # 0
            THEN <<[record_id |-> record.children[target_child].record_id,
                    fields |-> update_child_fields]>>
            ELSE <<[record_id |-> record.record_id,
                    fields |-> [approval_time |-> current_date_timestamp]]>>
    IN  child_requests
        \o <<[record_id |-> record.record_id,
               fields |-> [status |-> Scalar(Released)]]>>

update_app_status_OwnTimestamp(record, latest_version, current_date_timestamp) ==
    LET update_child_fields ==
            [status |-> Scalar(Released),
             approval_time |-> current_date_timestamp + record.record_id]
        target_child == find_target_child(record.children, 1, latest_version)
        child_requests ==
            IF record.children # <<>> /\ target_child # 0
            THEN <<[record_id |-> record.children[target_child].record_id,
                    fields |-> update_child_fields]>>
            ELSE <<>>
        update_fields ==
            IF record.children # <<>>
            THEN [status |-> Scalar(Released)]
            ELSE update_child_fields
    IN  child_requests
        \o <<[record_id |-> record.record_id, fields |-> update_fields]>>

update_app_status(record, latest_version, current_date_timestamp) ==
    LET update_child_fields ==
            [status |-> Scalar(Released),
             approval_time |-> current_date_timestamp]
        target_child == find_target_child(record.children, 1, latest_version)
        child_requests ==
            IF record.children # <<>> /\ target_child # 0
            THEN <<[record_id |-> record.children[target_child].record_id,
                    fields |-> update_child_fields]>>
            ELSE <<>>
        update_fields ==
            IF record.children # <<>>
            THEN [status |-> Scalar(Released)]
            ELSE [status |-> Scalar(Released),
                  approval_time |-> current_date_timestamp]
    IN  child_requests
        \o <<[record_id |-> record.record_id, fields |-> update_fields]>>

\* the table after the requests, success[k] being the outcome of request k
RECURSIVE apply_requests(_, _, _, _)
apply_requests(t, requests, success, k) ==
    IF k > Len(requests) THEN t
    ELSE apply_requests(
             update_record_fields(t, requests[k].record_id,
                                  requests[k].fields, success[k]),
             requests, success, k + 1)

----------------------------------------------------------------------------
(* FeishuBitableMonitor.send_feishu_message and send_notifications *)

NoUsers == <<>>

\* main's FEISHU_NOTIFICATIONS
FEISHU_NOTIFICATIONS ==
    <<[chat_id |-> "oc_1", mention_all |-> TRUE, mention_user_ids |-> NoUsers],
      [chat_id |-> "oc_2", mention_all |-> FALSE,
       mention_user_ids |-> <<"ou_1", "ou_2">>]>>

\* content_parts of one message: the at tags, then the text
send_feishu_message(chat_id, app_name, stage, version, mention_all, mention_user_ids) ==
    [chat_id |-> chat_id,
     mentions |-> (IF mention_all THEN <<"all">> ELSE <<>>)
                  \o mention_user_ids,
     text |-> <<app_name, stage, version>>]

\* the messages send_notifications attempts, in order
RECURSIVE send_notifications(_, _, _, _, _)
send_notifications(notifications, i, app_name, stage, version) ==
    IF i > Len(notifications) THEN <<>>
    ELSE LET config == notifications[i]
             rest == send_notifications(notifications, i + 1, app_name,
                                        stage, version)
         IN  IF ~TruthyStr(config.chat_id) THEN rest
             ELSE <<send_feishu_message(config.chat_id, app_name, stage,
                                        version, config.mention_all,
                                        config.mention_user_ids)>> \o rest

\* FeishuMessenger.send_warning_message: the digest messages it attempts
\* for chat_id, none when chat_id or invalid_records is empty
send_warning_message_NoGuard(chat_id, invalid_records) ==
    <<[chat_id |-> chat_id, mentions |-> <<"all">>,
       text |-> invalid_records]>>

send_warning_message(chat_id, invalid_records) ==
    IF ~TruthyStr(chat_id) \/ invalid_records = <<>> THEN <<>>
    ELSE <<[chat_id |-> chat_id, mentions |-> <<"all">>,
            text |-> invalid_records]>>

----------------------------------------------------------------------------
(* monitor_apple.main *)

\* int(datetime.now().timestamp() * 1000) of the n-th run
Now(n) == 1000 + n

\* what one pass of the for loop did for one record
Entry(record, skipped, local_latest_version, app_status, isSelectVersionOnline, writes, sends) ==
    [record_id |-> record.record_id,
     skipped |-> skipped,
     local_latest_version |-> local_latest_version,
     app_status |-> app_status,
     isSelectVersionOnline |-> isSelectVersionOnline,
     writes |-> writes,
     sends |-> sends]

\* the lookup was not made
NotQueried == [is_none |-> TRUE, is_online |-> FALSE, version |-> Unset]

\* no pass of the for loop has been made in this run
NoEntry ==
    [record_id |-> 0, skipped |-> FALSE, local_latest_version |-> Unset,
     app_status |-> NotQueried, isSelectVersionOnline |-> FALSE,
     writes |-> <<>>, sends |-> <<>>]

\* os.getenv: a setting is missing, empty or set
SettingValues == {None, "", "set"}

Environments ==
    [FEISHU_APP_ID : SettingValues, FEISHU_APP_SECRET : SettingValues,
     FEISHU_WIKI_URL : SettingValues]

ValidEnvironment ==
    [FEISHU_APP_ID |-> "set", FEISHU_APP_SECRET |-> "set",
     FEISHU_WIKI_URL |-> "set"]

\* the required settings are all there
validate_AppIdOnly(settings) == TruthyStr(settings.FEISHU_APP_ID)

validate(settings) ==
    /\ TruthyStr(settings.FEISHU_APP_ID)
    /\ TruthyStr(settings.FEISHU_APP_SECRET)
    /\ TruthyStr(settings.FEISHU_WIKI_URL)

\* main up to the for loop: settings check, fetch, resolve, stage filter,
\* timestamp. With a required setting missing main returns [] at once.
StartRun ==
    /\ pc \in {"idle", "done"}
    /\ run < MaxRuns
    /\ run' = run + 1
    /\ released' = {[h EXCEPT !.earlier = TRUE] : h \in released}
    /\ idx' = 1
    /\ last' = NoEntry
    /\ IF ~validate(env)
       THEN /\ records' = <<>>
            /\ pc' = "done"
            /\ UNCHANGED current_timestamp
       ELSE /\ current_timestamp' = Now(run + 1)
            /\ records' = filter_stage(
                              get_records_by_status(get_all_records(table),
                                                    InReview),
                              1)
            /\ pc' = "loop"
    /\ UNCHANGED <<table, probe, latest, resolved, dispatch, env, passes,
                   listing>>

\* "if not record.apple_id": the record is passed over
no_apple_id_Never(record) == FALSE

no_apple_id(record) == ~TruthyInt(record.apple_id)

\* "if not local_latest_version": the record is passed over
no_latest_version(local_latest_version) == ~TruthyStr(local_latest_version)

\* isSelectVersionOnline after the lookup
is_select_version_online_AnyVersion(app_status, local_latest_version) ==
    /\ ~app_status.is_none
    /\ app_status.is_online
    /\ TruthyStr(app_status.version)

is_select_version_online_Negated(app_status, local_latest_version) ==
    ~(/\ ~app_status.is_none
      /\ app_status.is_online
      /\ TruthyStr(app_status.version)
      /\ app_status.version = local_latest_version)

is_select_version_online(app_status, local_latest_version) ==
    /\ ~app_status.is_none
    /\ app_status.is_online
    /\ TruthyStr(app_status.version)
    /\ app_status.version = local_latest_version

\* one pass of the for loop over filtered_records. send_notifications
\* discards what send_feishu_message returns, so the pass goes on in the
\* same way whatever happens to a delivery; the outcomes of the deliveries
\* are followed channel by channel in SpecNotify.
ProcessRecord ==
    /\ pc = "loop"
    /\ idx <= Len(records)
    /\ LET record == records[idx] IN
       IF no_apple_id(record)
       THEN /\ last' = Entry(record, TRUE, Unset, NotQueried, FALSE, <<>>, <<>>)
            /\ UNCHANGED <<table, released>>
       ELSE
       LET local_latest_version == get_latest_version(record) IN
       IF no_latest_version(local_latest_version)
       THEN /\ last' = Entry(record, TRUE, local_latest_version, NotQueried,
                           FALSE, <<>>, <<>>)
            /\ UNCHANGED <<table, released>>
       ELSE
       \E response \in LookupResponses :
           LET app_status == query_apple_app_status(response)
               isSelectVersionOnline ==
                   is_select_version_online(app_status, local_latest_version)
           IN
           IF isSelectVersionOnline
           THEN LET requests == update_app_status(record,
                                    local_latest_version, current_timestamp)
                    messages == send_notifications(FEISHU_NOTIFICATIONS, 1,
                                    record.package_name,
                                    IF TruthyStr(record.stage)
                                    THEN record.stage ELSE UnknownStage,
                                    local_latest_version)
                IN  \E success \in [1 .. Len(requests) -> BOOLEAN] :
                        /\ table' = apply_requests(table, requests, success, 1)
                        /\ last' =
                               Entry(record, FALSE, local_latest_version,
                                     app_status, TRUE,
                                     [k \in 1 .. Len(requests) |->
                                         [record_id |-> requests[k].record_id,
                                          fields |-> requests[k].fields,
                                          success |-> success[k]]],
                                     [k \in 1 .. Len(messages) |->
                                         [message |-> messages[k]]])
                        /\ released' = released \cup
                               {[record_id |-> record.record_id,
                                 stored |-> success[Len(requests)],
                                 earlier |-> FALSE]}
           ELSE /\ last' = Entry(record, FALSE, local_latest_version,
                                 app_status, FALSE, <<>>, <<>>)
                /\ UNCHANGED <<table, released>>
    /\ idx' = idx + 1
    /\ UNCHANGED <<pc, run, current_timestamp, records, probe, latest,
                   resolved, dispatch, env, passes, listing>>

\* the for loop is over: main returns filtered_records
FinishRun_AfterFailedLookup ==
    /\ pc = "loop"
    /\ idx > Len(records) \/ last.app_status = NoStatus
    /\ pc' = "done"
    /\ UNCHANGED <<table, run, current_timestamp, records, idx, last,
                   released, probe, latest, resolved, dispatch, env, passes,
                   listing>>

FinishRun ==
    /\ pc = "loop"
    /\ idx > Len(records)
    /\ pc' = "done"
    /\ UNCHANGED <<table, run, current_timestamp, records, idx, last,
                   released, probe, latest, resolved, dispatch, env, passes,
                   listing>>

----------------------------------------------------------------------------
(* The rows the bitable starts with *)

AppleId == CHOOSE a \in {42} : TRUE

ParentItem(ids) == [record_ids |-> ids, text |-> "ref"]

\* the rows that may be apps: rows 1 and 2
AppIds == {1, 2} \cap Ids

\* rows without a parent, in review: with and without apple_id, with and
\* without version, and one in the excluded stage
MainRows ==
    {Row(Scalar(InReview), <<>>, a, v, None, NoneInt) :
        a \in {NoneInt, AppleId}, v \in {None, "1.0"}}
    \cup {Row(Scalar(InReview), <<>>, AppleId, "1.0", ExcludedStage, NoneInt)}

\* version rows: they point at row 1, and one of them at rows 1 and 2
ChildRows ==
    {Row(Scalar(InReview), <<ParentItem({1})>>, NoneInt, v, None, t) :
        v \in {"1.0", "1.1"}, t \in {NoneInt, 1, MaxTime}}
    \cup {Row(Scalar(InReview), <<ParentItem(AppIds)>>, NoneInt, "1.1", None,
              MaxTime)}

\* the tables a run can find: apps in rows 1 and 2 at most, version rows
\* anywhere
Tables ==
    {t \in [Ids -> MainRows \cup ChildRows] :
        \A i \in Ids \ AppIds : t[i] \in ChildRows}

NoProbe == [version |-> None, children |-> <<>>]

\* no notification has been asked for
NoDispatch ==
    [at |-> "idle", notifications |-> <<>>, invalid_records |-> <<>>,
     event |-> <<>>, next |-> 1, attempts |-> <<>>, digests |-> <<>>]

\* get_records_by_status has not been called on its own
NoCall ==
    [at |-> "idle", target_status |-> None, strict |-> FALSE,
     main_apps |-> <<>>, next |-> 1, assigned |-> <<>>]

\* get_all_records has not been called page by page
NoListing ==
    [at |-> "idle", pages |-> <<>>, page_token |-> NoneInt,
     all_records |-> <<>>, requested |-> <<>>]

\* the passes have not been taken request by request
NoPasses == [at |-> "idle", table0 |-> <<>>, done |-> <<>>]

Init ==
    /\ table \in Tables
    /\ pc = "idle"
    /\ run = 0
    /\ current_timestamp = NoneInt
    /\ records = <<>>
    /\ idx = 1
    /\ last = NoEntry
    /\ released = {}
    /\ probe = NoProbe
    /\ latest = Unset
    /\ resolved = NoCall
    /\ dispatch = NoDispatch
    /\ env \in Environments
    /\ passes = NoPasses
    /\ listing = NoListing

Next == StartRun \/ ProcessRecord \/ FinishRun

Spec == Init /\ [][Next]_vars

----------------------------------------------------------------------------
(* get_latest_version on its own: every record with up to MaxChildren     *)
(* children                                                               *)

ProbeTimes == {NoneInt} \cup (0 .. MaxTime)

ProbeChild == [version : {None, "", "1.0", "1.1"}, submission_time : ProbeTimes]

ProbeChildren ==
    UNION {[1 .. n -> ProbeChild] : n \in 0 .. MaxChildren}

\* the rows of the bitable play no part here
IdleTable == [i \in Ids |-> Row({}, <<>>, NoneInt, None, None, NoneInt)]

InitLatest ==
    /\ probe \in [version : {None, "0.9"}, children : ProbeChildren]
    /\ latest = Unset
    /\ table = IdleTable
    /\ pc = "idle"
    /\ run = 0
    /\ current_timestamp = NoneInt
    /\ records = <<>>
    /\ idx = 1
    /\ last = NoEntry
    /\ released = {}
    /\ resolved = NoCall
    /\ dispatch = NoDispatch
    /\ env = ValidEnvironment
    /\ passes = NoPasses
    /\ listing = NoListing

\* a call of probe.get_latest_version()
CallGetLatestVersion ==
    /\ latest = Unset
    /\ latest' = get_latest_version(probe)
    /\ UNCHANGED <<probe, table, pc, run, current_timestamp, records, idx,
                   last, released, resolved, dispatch, env, passes, listing>>

\* the same record with two neighbouring children exchanged
ReorderChildren ==
    /\ latest # Unset
    /\ \E i \in 1 .. Len(probe.children) - 1 :
           probe' = [probe EXCEPT
                        !.children[i] = probe.children[i + 1],
                        !.children[i + 1] = probe.children[i]]
    /\ latest' = Unset
    /\ UNCHANGED <<table, pc, run, current_timestamp, records, idx, last,
                   released, resolved, dispatch, env, passes, listing>>

NextLatest == CallGetLatestVersion \/ ReorderChildren

SpecLatest == InitLatest /\ [][NextLatest]_vars

----------------------------------------------------------------------------
(* get_records_by_status on its own, in both variants: step 2 collects     *)
(* main_apps, step 3 assigns the children of one main record after the     *)
(* other, then main_apps is returned                                       *)

OtherStatus == "Other"

ResolveTargets == {InReview, OtherStatus}

\* the 包状态 cell: missing, a scalar, or a list of two values
ResolveStatuses ==
    {{}, Scalar(InReview), Scalar(Released), Scalar(OtherStatus),
     {InReview, OtherStatus}}

\* the 父记录 cell of the rows 1 and 2: missing, an item without ids and
\* text, an item with text alone, an item naming row 1, one naming rows 1
\* and 2
ResolveParents ==
    {<<>>, <<[record_ids |-> {}, text |-> None]>>,
     <<[record_ids |-> {}, text |-> "ref"]>>,
     <<ParentItem({1})>>, <<ParentItem(AppIds)>>}

ResolveRows ==
    {Row(st, pa, NoneInt, "1.0", None, NoneInt) :
        st \in ResolveStatuses, pa \in ResolveParents}

\* the further rows name row 1, or rows 1 and 2, or row 1 in two items
ResolveVersionRows ==
    {Row(st, pa, NoneInt, "1.0", None, NoneInt) :
        st \in ResolveStatuses,
        pa \in {<<ParentItem({1})>>, <<ParentItem(AppIds)>>,
                <<ParentItem({1}), ParentItem(AppIds)>>}}

ResolveTables ==
    {t \in [Ids -> ResolveRows \cup ResolveVersionRows] :
        /\ \A i \in AppIds : t[i] \in ResolveRows
        /\ \A i \in Ids \ AppIds : t[i] \in ResolveVersionRows}

InitResolve ==
    /\ table \in ResolveTables
    /\ resolved = NoCall
    /\ dispatch = NoDispatch
    /\ pc = "idle"
    /\ run = 0
    /\ current_timestamp = NoneInt
    /\ records = <<>>
    /\ idx = 1
    /\ last = NoEntry
    /\ released = {}
    /\ probe = NoProbe
    /\ latest = Unset
    /\ env = ValidEnvironment
    /\ passes = NoPasses
    /\ listing = NoListing

\* steps 1 and 2 of a call with target_status
CollectMainApps(target_status, strict) ==
    /\ resolved.at = "idle"
    /\ LET main_apps == main_apps_from(get_all_records(table), 1,
                                       target_status)
       IN  resolved' = [at |-> "step3", target_status |-> target_status,
                        strict |-> strict, main_apps |-> main_apps,
                        next |-> 1,
                        assigned |-> [m \in 1 .. Len(main_apps) |-> 0]]
    /\ UNCHANGED <<table, pc, run, current_timestamp, records, idx, last,
                   released, probe, latest, dispatch, env, passes, listing>>

\* FeishuBitableMonitor.get_records_by_status is called
CallMonitorResolver ==
    \E target_status \in ResolveTargets :
        CollectMainApps(target_status, FALSE)

\* FeishuBitableService.get_records_by_status is called
CallServiceResolver ==
    \E target_status \in ResolveTargets :
        CollectMainApps(target_status, TRUE)

\* one pass of the loop of step 3: main_app.children = children
AttachChildren_Repeated ==
    /\ resolved.at = "step3"
    /\ resolved.next <= Len(resolved.main_apps)
    /\ LET m == resolved.next
           main_app == resolved.main_apps[m]
           children == children_from(get_all_records(table), 1,
                                     main_app.record_id)
       IN  resolved' = [resolved EXCEPT
                           !.main_apps[m].children = children,
                           !.assigned[m] = @ + 1,
                           !.next = IF resolved.assigned[m] = 0
                                    THEN m ELSE m + 1]
    /\ UNCHANGED <<table, pc, run, current_timestamp, records, idx, last,
                   released, probe, latest, dispatch, env, passes, listing>>

AttachChildren ==
    /\ resolved.at = "step3"
    /\ resolved.next <= Len(resolved.main_apps)
    /\ LET m == resolved.next
           main_app == resolved.main_apps[m]
           children ==
               IF resolved.strict
               THEN service_children_from(get_all_records(table), 1,
                                          main_app.record_id)
               ELSE children_from(get_all_records(table), 1,
                                  main_app.record_id)
       IN  resolved' = [resolved EXCEPT
                           !.main_apps[m].children = children,
                           !.assigned[m] = @ + 1,
                           !.next = m + 1]
    /\ UNCHANGED <<table, pc, run, current_timestamp, records, idx, last,
                   released, probe, latest, dispatch, env, passes, listing>>

\* return main_apps
ReturnMainApps ==
    /\ resolved.at = "step3"
    /\ resolved.next > Len(resolved.main_apps)
    /\ resolved' = [resolved EXCEPT !.at = "returned"]
    /\ UNCHANGED <<table, pc, run, current_timestamp, records, idx, last,
                   released, probe, latest, dispatch, env, passes, listing>>

NextResolve ==
    CallMonitorResolver \/ CallServiceResolver \/ AttachChildren
    \/ ReturnMainApps

SpecResolve == InitResolve /\ [][NextResolve]_vars

----------------------------------------------------------------------------
(* The notifications of one run on their own: the validation digest, then  *)
(* send_notifications for one release, one channel configuration after the *)
(* other, for every list of up to MaxChannels configurations               *)

\* one channel configuration; a missing chat_id is None, a missing
\* mention_all is False, a missing mention_user_ids is the empty list
ChannelConfigs ==
    [chat_id : {None, "oc_1", "oc_2"}, mention_all : BOOLEAN,
     mention_user_ids : {NoUsers, <<"ou_1", "ou_2">>}]

ConfigLists == UNION {[1 .. n -> ChannelConfigs] : n \in 0 .. MaxChannels}

\* the (record, errors) pairs of the records that failed validation
InvalidRecordLists == {<<>>, <<[record_id |-> 1, errors |-> <<"version">>]>>}

\* app_name, stage and version of the release
Events == {<<PackageName(1), UnknownStage, v>> : v \in StoreVersions}

\* what message.create can do: accept, answer with an error code, raise
DeliveryOutcomes == {"success", "failed", "exception"}

InitNotify ==
    /\ \E notifications \in ConfigLists,
          invalid_records \in InvalidRecordLists :
           dispatch = [NoDispatch EXCEPT !.notifications = notifications,
                                         !.invalid_records = invalid_records]
    /\ table = IdleTable
    /\ resolved = NoCall
    /\ pc = "idle"
    /\ run = 0
    /\ current_timestamp = NoneInt
    /\ records = <<>>
    /\ idx = 1
    /\ last = NoEntry
    /\ released = {}
    /\ probe = NoProbe
    /\ latest = Unset
    /\ env = ValidEnvironment
    /\ passes = NoPasses
    /\ listing = NoListing

\* index of the first configuration with mention_all, 0 when there is none
RECURSIVE digest_channel(_, _)
digest_channel(notifications, i) ==
    IF i > Len(notifications) THEN 0
    ELSE IF notifications[i].mention_all THEN i
         ELSE digest_channel(notifications, i + 1)

\* the digest of the run: send_warning_message to the digest channel
SendDigest ==
    /\ dispatch.at = "idle"
    /\ LET c == digest_channel(dispatch.notifications, 1)
           messages ==
               IF c = 0 THEN <<>>
               ELSE send_warning_message(dispatch.notifications[c].chat_id,
                                         dispatch.invalid_records)
       IN  \E outcome \in [1 .. Len(messages) -> DeliveryOutcomes] :
               dispatch' =
                   [dispatch EXCEPT
                       !.at = "validated",
                       !.digests =
                           [k \in 1 .. Len(messages) |->
                               [config |-> c, message |-> messages[k],
                                outcome |-> outcome[k],
                                returned |-> outcome[k] = "success"]]]
    /\ UNCHANGED <<table, pc, run, current_timestamp, records, idx, last,
                   released, probe, latest, resolved, env, passes, listing>>

\* send_notifications is called for a release: "if not notifications"
StartNotifications ==
    /\ dispatch.at = "validated"
    /\ \E event \in Events :
           dispatch' = [dispatch EXCEPT
                           !.event = event,
                           !.next = 1,
                           !.at = IF dispatch.notifications = <<>>
                                  THEN "done" ELSE "notifying"]
    /\ UNCHANGED <<table, pc, run, current_timestamp, records, idx, last,
                   released, probe, latest, resolved, env, passes, listing>>

\* one pass of the loop of send_notifications
NotifyChannel_StopOnFailure ==
    /\ dispatch.at = "notifying"
    /\ dispatch.next <= Len(dispatch.notifications)
    /\ LET i == dispatch.next
           config == dispatch.notifications[i]
       IN  IF ~TruthyStr(config.chat_id)
           THEN dispatch' = [dispatch EXCEPT !.next = i + 1]
           ELSE \E outcome \in DeliveryOutcomes :
                    dispatch' =
                        [dispatch EXCEPT
                            !.next = IF outcome = "success" THEN i + 1
                                     ELSE Len(dispatch.notifications) + 1,
                            !.attempts = Append(@,
                                [config |-> i,
                                 message |-> send_feishu_message(
                                     config.chat_id, dispatch.event[1],
                                     dispatch.event[2], dispatch.event[3],
                                     config.mention_all,
                                     config.mention_user_ids),
                                 outcome |-> outcome,
                                 returned |-> outcome = "success"])]
    /\ UNCHANGED <<table, pc, run, current_timestamp, records, idx, last,
                   released, probe, latest, resolved, env, passes, listing>>

NotifyChannel ==
    /\ dispatch.at = "notifying"
    /\ dispatch.next <= Len(dispatch.notifications)
    /\ LET i == dispatch.next
           config == dispatch.notifications[i]
       IN  IF ~TruthyStr(config.chat_id)
           THEN dispatch' = [dispatch EXCEPT !.next = i + 1]
           ELSE \E outcome \in DeliveryOutcomes :
                    dispatch' =
                        [dispatch EXCEPT
                            !.next = i + 1,
                            !.attempts = Append(@,
                                [config |-> i,
                                 message |-> send_feishu_message(
                                     config.chat_id, dispatch.event[1],
                                     dispatch.event[2], dispatch.event[3],
                                     config.mention_all,
                                     config.mention_user_ids),
                                 outcome |-> outcome,
                                 returned |-> outcome = "success"])]
    /\ UNCHANGED <<table, pc, run, current_timestamp, records, idx, last,
                   released, probe, latest, resolved, env, passes, listing>>

\* the loop of send_notifications is over
FinishNotifications ==
    /\ dispatch.at = "notifying"
    /\ dispatch.next > Len(dispatch.notifications)
    /\ dispatch' = [dispatch EXCEPT !.at = "done"]
    /\ UNCHANGED <<table, pc, run, current_timestamp, records, idx, last,
                   released, probe, latest, resolved, env, passes, listing>>

NextNotify ==
    SendDigest \/ StartNotifications \/ NotifyChannel \/ FinishNotifications

SpecNotify == InitNotify /\ [][NextNotify]_vars

----------------------------------------------------------------------------
(* The passes of the for loop request by request, the passes of different
   records in any order and interleaved (SpecOrder) *)

\* the requests of one pass in the order main makes them, response being
\* what the lookup comes back with: the lookup, then the updates of
\* update_app_status, then the messages of send_notifications
pass_steps_NotifyFirst(record, response, current_date_timestamp) ==
    LET local_latest_version == get_latest_version(record)
        app_status == query_apple_app_status(response)
        requests == update_app_status(record, local_latest_version,
                                      current_date_timestamp)
        messages == send_notifications(FEISHU_NOTIFICATIONS, 1,
                        record.package_name,
                        IF TruthyStr(record.stage)
                        THEN record.stage ELSE UnknownStage,
                        local_latest_version)
    IN  IF no_apple_id(record) \/ no_latest_version(local_latest_version)
        THEN <<>>
        ELSE <<[op |-> "lookup", request |-> record.apple_id]>>
             \o IF is_select_version_online(app_status, local_latest_version)
                THEN [k \in 1 .. Len(messages) |->
                         [op |-> "send", request |-> messages[k]]]
                     \o [k \in 1 .. Len(requests) |->
                            [op |-> "update", request |-> requests[k]]]
                ELSE <<>>

pass_steps(record, response, current_date_timestamp) ==
    LET local_latest_version == get_latest_version(record)
        app_status == query_apple_app_status(response)
        requests == update_app_status(record, local_latest_version,
                                      current_date_timestamp)
        messages == send_notifications(FEISHU_NOTIFICATIONS, 1,
                        record.package_name,
                        IF TruthyStr(record.stage)
                        THEN record.stage ELSE UnknownStage,
                        local_latest_version)
    IN  IF no_apple_id(record) \/ no_latest_version(local_latest_version)
        THEN <<>>
        ELSE <<[op |-> "lookup", request |-> record.apple_id]>>
             \o IF is_select_version_online(app_status, local_latest_version)
                THEN [k \in 1 .. Len(requests) |->
                         [op |-> "update", request |-> requests[k]]]
                     \o [k \in 1 .. Len(messages) |->
                            [op |-> "send", request |-> messages[k]]]
                ELSE <<>>

\* the tables of these runs: rows 1 and 2 are apps with an apple_id
OrderTables == {t \in Tables : \A i \in AppIds : TruthyInt(t[i].apple_id)}

InitOrder ==
    /\ table \in OrderTables
    /\ pc = "idle"
    /\ run = 0
    /\ current_timestamp = NoneInt
    /\ records = <<>>
    /\ idx = 1
    /\ last = NoEntry
    /\ released = {}
    /\ probe = NoProbe
    /\ latest = Unset
    /\ resolved = NoCall
    /\ dispatch = NoDispatch
    /\ env = ValidEnvironment
    /\ passes = NoPasses
    /\ listing = NoListing

\* main up to the for loop
StartPasses ==
    /\ passes.at = "idle"
    /\ validate(env)
    /\ current_timestamp' = Now(1)
    /\ records' = filter_stage(
                      get_records_by_status(get_all_records(table), InReview),
                      1)
    /\ passes' = [at |-> "running", table0 |-> table,
                  done |-> [k \in 1 .. Len(records') |-> <<>>]]
    /\ UNCHANGED <<table, pc, run, idx, last, released, probe, latest,
                   resolved, dispatch, env, listing>>

\* the steps of the pass for record k, once its lookup has come back
StepsOf(k) ==
    pass_steps(records[k], passes.done[k][1].outcome, current_timestamp)

\* the next request of the pass for record k, after the lookup
NextStep(k) == StepsOf(k)[Len(passes.done[k]) + 1]

\* query_apple_app_status for record k
LookupStep ==
    /\ passes.at = "running"
    /\ \E k \in 1 .. Len(records) : \E response \in LookupResponses :
          LET steps == pass_steps(records[k], response, current_timestamp) IN
          /\ passes.done[k] = <<>>
          /\ steps # <<>>
          /\ passes' = [passes EXCEPT !.done[k] =
                           <<[op |-> "lookup", request |-> steps[1].request,
                              outcome |-> response]>>]
    /\ UNCHANGED <<table, pc, run, current_timestamp, records, idx, last,
                   released, probe, latest, resolved, dispatch, env, listing>>

\* the next update_record_fields of update_app_status for record k
UpdateStep ==
    /\ passes.at = "running"
    /\ \E k \in 1 .. Len(records) : \E success \in BOOLEAN :
          /\ passes.done[k] # <<>>
          /\ Len(passes.done[k]) < Len(StepsOf(k))
          /\ NextStep(k).op = "update"
          /\ table' = update_record_fields(table,
                          NextStep(k).request.record_id,
                          NextStep(k).request.fields, success)
          /\ passes' = [passes EXCEPT !.done[k] =
                           Append(@, [op |-> "update",
                                      request |-> NextStep(k).request,
                                      outcome |-> success])]
    /\ UNCHANGED <<pc, run, current_timestamp, records, idx, last, released,
                   probe, latest, resolved, dispatch, env, listing>>

\* the next send_feishu_message of send_notifications for record k; what
\* it returns is discarded
SendStep ==
    /\ passes.at = "running"
    /\ \E k \in 1 .. Len(records) :
          /\ passes.done[k] # <<>>
          /\ Len(passes.done[k]) < Len(StepsOf(k))
          /\ NextStep(k).op = "send"
          /\ passes' = [passes EXCEPT !.done[k] =
                           Append(@, [op |-> "send",
                                      request |-> NextStep(k).request,
                                      outcome |-> "discarded"])]
    /\ UNCHANGED <<table, pc, run, current_timestamp, records, idx, last,
                   released, probe, latest, resolved, dispatch, env, listing>>

\* the pass for record k is over
PassOver(k) ==
    IF passes.done[k] = <<>>
    THEN \/ no_apple_id(records[k])
         \/ no_latest_version(get_latest_version(records[k]))
    ELSE Len(passes.done[k]) = Len(StepsOf(k))

\* every record has had its pass
FinishPasses ==
    /\ passes.at = "running"
    /\ \A k \in 1 .. Len(records) : PassOver(k)
    /\ passes' = [passes EXCEPT !.at = "done"]
    /\ UNCHANGED <<table, pc, run, current_timestamp, records, idx, last,
                   released, probe, latest, resolved, dispatch, env, listing>>

NextOrder ==
    StartPasses \/ LookupStep \/ UpdateStep \/ SendStep \/ FinishPasses

SpecOrder == InitOrder /\ [][NextOrder]_vars

----------------------------------------------------------------------------
(* FeishuBitableMonitor.get_all_records page by page (SpecPages) *)

\* A page token is a number here: k >= 1 is the token of page k, 0 stands
\* for the empty string and NoneInt for None. A request without a page
\* token is answered with the first page.

\* the responses the server can give for page p of n: it fails or succeeds;
\* the page is empty, or holds row p with or without fields; has_more is
\* set or not; the page token is missing, empty or the token of the next
\* page
PageResponses(p, n) ==
    [success : BOOLEAN,
     items : {<<>>, <<[record_id |-> p, fields |-> "fields"]>>,
              <<[record_id |-> p, fields |-> None]>>},
     has_more : BOOLEAN,
     page_token : {NoneInt, 0} \cup (IF p < n THEN {p + 1} ELSE {})]

\* the responses the server can give for the first k of n pages
RECURSIVE FirstPages(_, _)
FirstPages(k, n) ==
    IF k = 0 THEN {<<>>}
    ELSE {Append(ps, r) : ps \in FirstPages(k - 1, n),
                          r \in PageResponses(k, n)}

InitPages ==
    /\ \E n \in 1 .. MaxPages : \E ps \in FirstPages(n, n) :
          listing = [NoListing EXCEPT !.pages = ps]
    /\ table = IdleTable
    /\ pc = "idle"
    /\ run = 0
    /\ current_timestamp = NoneInt
    /\ records = <<>>
    /\ idx = 1
    /\ last = NoEntry
    /\ released = {}
    /\ probe = NoProbe
    /\ latest = Unset
    /\ resolved = NoCall
    /\ dispatch = NoDispatch
    /\ env = ValidEnvironment
    /\ passes = NoPasses

\* all_records = [], page_token = None
CallGetAllRecords ==
    /\ listing.at = "idle"
    /\ listing' = [listing EXCEPT !.at = "loop", !.page_token = NoneInt,
                                  !.all_records = <<>>, !.requested = <<>>]
    /\ UNCHANGED <<table, pc, run, current_timestamp, records, idx, last,
                   released, probe, latest, resolved, dispatch, env, passes>>

\* the items of a page that have fields, as all_records keeps them
RECURSIVE kept_items(_, _)
kept_items(items, i) ==
    IF i > Len(items) THEN <<>>
    ELSE IF TruthyStr(items[i].fields)
         THEN <<[record_id |-> items[i].record_id,
                 fields |-> items[i].fields]>> \o kept_items(items, i + 1)
         ELSE kept_items(items, i + 1)

\* one round of the while loop: the request, the response, and the break
\* or the next page_token
ListPage ==
    /\ listing.at = "loop"
    /\ Len(listing.requested) < MaxRequests
    /\ LET page == IF TruthyInt(listing.page_token)
                   THEN listing.page_token ELSE 1
           response == listing.pages[page]
           requested == Append(listing.requested, page)
       IN  IF ~response.success
           THEN listing' = [listing EXCEPT !.at = "returned",
                                           !.requested = requested]
           ELSE IF response.items = <<>>
           THEN listing' = [listing EXCEPT !.at = "returned",
                                           !.requested = requested]
           ELSE IF ~response.has_more
           THEN listing' = [listing EXCEPT
                               !.at = "returned",
                               !.requested = requested,
                               !.all_records =
                                   @ \o kept_items(response.items, 1)]
           ELSE listing' = [listing EXCEPT
                               !.requested = requested,
                               !.all_records =
                                   @ \o kept_items(response.items, 1),
                               !.page_token = response.page_token]
    /\ UNCHANGED <<table, pc, run, current_timestamp, records, idx, last,
                   released, probe, latest, resolved, dispatch, env, passes>>

NextPages == CallGetAllRecords \/ ListPage

SpecPages == InitPages /\ [][NextPages]_vars

----------------------------------------------------------------------------
(* Properties of get_latest_version (SpecLatest) *)

Called == latest # Unset

\* child i has a submission_time that is neither None nor 0
HasTime(children, i) == TruthyInt(children[i].submission_time)

\* child i has a submission_time and no child has a larger one
IsMaxAt(children, i) ==
    /\ HasTime(children, i)
    /\ \A j \in 1 .. Len(children) :
          HasTime(children, j) =>
              children[j].submission_time <= children[i].submission_time

\* child i alone has the largest submission_time
UniqueMaxAt(children, i) ==
    /\ IsMaxAt(children, i)
    /\ \A j \in 1 .. Len(children) : j # i => ~IsMaxAt(children, j)

\* child i is the first of several children with the largest submission_time
FirstOfTiedMaxAt(children, i) ==
    /\ IsMaxAt(children, i)
    /\ \A j \in 1 .. i - 1 : ~IsMaxAt(children, j)
    /\ \E j \in i + 1 .. Len(children) : IsMaxAt(children, j)

\* the orders of n children
Orders(n) ==
    {f \in [1 .. n -> 1 .. n] : \A a, b \in 1 .. n : f[a] = f[b] => a = b}

Reordered(record, f) ==
    [record EXCEPT !.children = [k \in 1 .. Len(record.children) |->
                                    record.children[f[k]]]]

C8_NoChildrenOwnVersion ==
    (Called /\ probe.children = <<>>) => latest = probe.version

C8_Witness ==
    /\ Called
    /\ probe.children = <<>>
    /\ probe.version = "0.9"
    /\ latest = "0.9"

\* C9: the child the version is taken from has a submission_time that is
\* neither None nor 0, and with children of which none has such a
\* submission_time the result is the record's own version.
C9_OnlyUsableTimesEligible ==
    Called =>
        /\ LatestChild(probe.children) # 0 =>
              TruthyInt(probe.children[LatestChild(probe.children)]
                            .submission_time)
        /\ latest # probe.version =>
              \E i \in 1 .. Len(probe.children) :
                  /\ probe.children[i].version = latest
                  /\ TruthyInt(probe.children[i].submission_time)
        /\ ( /\ probe.children # <<>>
             /\ \A i \in 1 .. Len(probe.children) :
                    ~TruthyInt(probe.children[i].submission_time) )
           => latest = probe.version

C9_Witness ==
    /\ Called
    /\ Len(probe.children) = 2
    /\ probe.children[1].submission_time = NoneInt
    /\ probe.children[2].submission_time = 0
    /\ probe.children[1].version = "1.0"
    /\ probe.children[2].version = "1.1"
    /\ probe.version = "0.9"
    /\ latest = "0.9"

----------------------------------------------------------------------------
(* Properties of the for loop of main (Spec) *)

\* a pass of the for loop has been made in this run
Processed == pc \in {"loop", "done"} /\ last.record_id # 0

\* the record of that pass
Rec == records[idx - 1]

\* the lookup was made in that pass
Queried == last.app_status # NotQueried

\* the lookup said online, with the version v
OnlineWith(v) ==
    /\ Queried
    /\ ~last.app_status.is_none
    /\ last.app_status.is_online
    /\ last.app_status.version = v

\* the pass wrote nothing and sent nothing
NothingDone == last.writes = <<>> /\ last.sends = <<>>

\* C1: a record with an apple_id and a latest version is released (the
\* update requests are issued, the main record last, and one message goes to
\* every configured chat) when the lookup says online with the latest
\* version; with any other lookup result nothing is written or sent.
C1_ReleaseIffVersionMatches ==
    ( /\ Processed
      /\ TruthyInt(Rec.apple_id)
      /\ TruthyStr(get_latest_version(Rec)) )
    => /\ Queried
       /\ OnlineWith(get_latest_version(Rec)) =>
             /\ last.writes # <<>>
             /\ last.writes[Len(last.writes)].record_id = Rec.record_id
             /\ Released \in last.writes[Len(last.writes)].fields.status
             /\ Len(last.sends) = Len(FEISHU_NOTIFICATIONS)
             /\ \A k \in 1 .. Len(last.sends) :
                   /\ last.sends[k].message.chat_id
                          = FEISHU_NOTIFICATIONS[k].chat_id
                   /\ last.sends[k].message.text[3] = get_latest_version(Rec)
       /\ ~OnlineWith(get_latest_version(Rec)) => NothingDone

C1_Witness ==
    /\ Processed
    /\ Len(Rec.children) = 2
    /\ get_latest_version(Rec) = "1.1"
    /\ Rec.version = "1.0"
    /\ OnlineWith("1.1")
    /\ Len(last.writes) = 2
    /\ Len(last.sends) = 2

\* the store reports another version than the latest one
C1_WitnessMismatch ==
    /\ Processed
    /\ get_latest_version(Rec) = "1.1"
    /\ OnlineWith("1.0")
    /\ NothingDone

\* C2: a record without apple_id, or without a latest version, is passed
\* over: no lookup is made, nothing is written and nothing is sent.
C2_SkipWithoutAppleIdOrVersion ==
    ( /\ Processed
      /\ \/ ~TruthyInt(Rec.apple_id)
         \/ ~TruthyStr(get_latest_version(Rec)) )
    => /\ ~Queried
       /\ last.skipped
       /\ NothingDone
       /\ ~last.isSelectVersionOnline

C2_Witness ==
    /\ Processed
    /\ Rec.apple_id = NoneInt
    /\ Rec.children # <<>>
    /\ get_latest_version(Rec) = "1.1"
    /\ ~Queried
    /\ NothingDone

\* C3: a pass whose lookup fails or reports is_online = false writes no
\* field of any row and sends nothing.
C3_AwaitReleaseChangesNothing ==
    [][ ( /\ pc = "loop"
          /\ idx' = idx + 1
          /\ last'.app_status # NotQueried
          /\ (last'.app_status.is_none \/ ~last'.app_status.is_online) )
        => /\ table' = table
           /\ last'.writes = <<>>
           /\ last'.sends = <<>>
           /\ released' = released ]_vars

C3_Witness ==
    /\ Processed
    /\ Queried
    /\ last.app_status.is_none
    /\ TruthyStr(get_latest_version(Rec))
    /\ NothingDone

\* index of the child the version is matched against: the first child whose
\* version is v, 0 when there is none
FirstWithVersion(children, v) ==
    IF \E i \in 1 .. Len(children) : children[i].version = v
    THEN CHOOSE i \in 1 .. Len(children) :
             /\ children[i].version = v
             /\ \A j \in 1 .. i - 1 : children[j].version # v
    ELSE 0

\* the pass released its record
ReleasedNow == Processed /\ last.writes # <<>>

\* C4: on the release of a record with a target child two updates are
\* issued: status Released and approval time = run timestamp to the child,
\* then status Released alone to the main record; the stored approval time
\* of the main record stays what it was.
C4_TargetChildGetsTimestamp ==
    ( /\ ReleasedNow
      /\ Rec.children # <<>>
      /\ FirstWithVersion(Rec.children, last.local_latest_version) # 0 )
    => LET child == Rec.children[FirstWithVersion(Rec.children,
                                     last.local_latest_version)]
       IN  /\ Len(last.writes) = 2
           /\ last.writes[1].record_id = child.record_id
           /\ last.writes[1].fields =
                 [status |-> {Released}, approval_time |-> current_timestamp]
           /\ last.writes[2].record_id = Rec.record_id
           /\ last.writes[2].fields = [status |-> {Released}]
           /\ last.writes[1].success =>
                 /\ table[child.record_id].status = {Released}
                 /\ table[child.record_id].approval_time = current_timestamp
           /\ last.writes[2].success =>
                 table[Rec.record_id].status = {Released}
           /\ table[Rec.record_id].approval_time = Rec.approval_time

C4_Witness ==
    /\ ReleasedNow
    /\ Len(Rec.children) = 2
    /\ FirstWithVersion(Rec.children, last.local_latest_version) = 2
    /\ last.writes[1].success
    /\ last.writes[2].success
    /\ table[Rec.children[2].record_id].approval_time = current_timestamp
    /\ table[Rec.record_id].status = {Released}
    /\ table[Rec.record_id].approval_time = NoneInt

ReleasedEarlier(r) ==
    \E h \in released : h.record_id = r /\ h.earlier

\* an earlier run released record r and its status update was stored
ReleasedAndStoredEarlier(r) ==
    \E h \in released : h.record_id = r /\ h.earlier /\ h.stored

\* this run has done nothing so far for record r
UntouchedInThisRun(r) ==
    /\ last.record_id = r => NothingDone
    /\ \A k \in 1 .. Len(last.writes) : last.writes[k].record_id # r

----------------------------------------------------------------------------
(* Properties of get_records_by_status (SpecResolve) *)

Returned == resolved.at = "returned"

MainApps == resolved.main_apps

\* the record ids of the returned main records
MainIds == {MainApps[m].record_id : m \in 1 .. Len(MainApps)}

\* the record ids of the children of the m-th returned main record
ChildIds(m) ==
    {MainApps[m].children[k].record_id :
        k \in 1 .. Len(MainApps[m].children)}

\* the row's parent reference is empty: no cell, or items without ids and
\* without text
EmptyParentRef(row) ==
    \A k \in 1 .. Len(row.parent) :
        row.parent[k].record_ids = {} /\ row.parent[k].text \in {None, ""}

\* the record ids the row's parent reference names
NamedIds(row) == UNION {row.parent[k].record_ids : k \in 1 .. Len(row.parent)}

\* C11: the resolver returns a row as a main record if and only if its
\* status cell contains target_status (as the scalar or as a member of the
\* list) and its parent reference is empty.
C11_MainIffStatusAndNoParent ==
    Returned =>
        \A i \in Ids :
            i \in MainIds <=>
                (/\ resolved.target_status \in table[i].status
                 /\ EmptyParentRef(table[i]))

\* a call that returned a row whose status is a list holding target_status
\* and whose parent cell is an item without ids and text, and left out a row
\* with the status whose parent reference has text alone
C11_Witness ==
    /\ Returned
    /\ \E i \in MainIds :
          /\ Cardinality(table[i].status) = 2
          /\ table[i].parent # <<>>
    /\ \E i \in Ids \ MainIds :
          /\ resolved.target_status \in table[i].status
          /\ NamedIds(table[i]) = {}

\* C12: in the unfiltered resolver a fetched row is among the children of a
\* returned main record if and only if its parent reference names that main
\* record; a row naming several main records is a child of each.
C12_ChildIffParentNamesMain ==
    (Returned /\ ~resolved.strict) =>
        \A m \in 1 .. Len(MainApps) :
            \A i \in Ids :
                i \in ChildIds(m) <=> MainApps[m].record_id \in NamedIds(table[i])

\* a row naming two returned main records is a child of both
C12_Witness ==
    /\ Returned
    /\ ~resolved.strict
    /\ \E i \in Ids :
          /\ Cardinality(NamedIds(table[i]) \cap MainIds) = 2
          /\ \A m \in 1 .. Len(MainApps) : i \in ChildIds(m)

\* C13: a row with a non-empty parent reference that names no returned main
\* record is in the result neither as a main record nor as a child.
C13_OrphansDropped ==
    Returned =>
        \A i \in Ids :
            (~EmptyParentRef(table[i]) /\ NamedIds(table[i]) \cap MainIds = {})
                => /\ i \notin MainIds
                   /\ \A m \in 1 .. Len(MainApps) : i \notin ChildIds(m)

\* a non-empty result that leaves out a row with the target status whose
\* parent reference names a row that is no main record
C13_Witness ==
    /\ Returned
    /\ MainIds # {}
    /\ \E i \in Ids :
          /\ NamedIds(table[i]) # {}
          /\ NamedIds(table[i]) \cap MainIds = {}
          /\ resolved.target_status \in table[i].status

\* C14: no returned main record has a child with its own record id.
C14_NoSelfChild ==
    Returned =>
        \A m \in 1 .. Len(MainApps) : MainApps[m].record_id \notin ChildIds(m)

\* a row with the target status names itself, and the result has a main
\* record with that row as its child
C14_Witness ==
    /\ Returned
    /\ \E i \in Ids :
          /\ i \in NamedIds(table[i])
          /\ resolved.target_status \in table[i].status
          /\ \E m \in 1 .. Len(MainApps) : i \in ChildIds(m)

\* C15 as stated: in the strict variant, for every target_status, a row
\* naming a main record is kept as its child if and only if its status is
\* target_status or the release status.
C15_StrictKeepsTargetOrReleased ==
    (Returned /\ resolved.strict) =>
        \A m \in 1 .. Len(MainApps) :
            \A i \in Ids :
                i \in ChildIds(m) <=>
                    (/\ MainApps[m].record_id \in NamedIds(table[i])
                     /\ table[i].status
                            \cap {resolved.target_status, Released} # {})

\* C16: after a resolution pass every attached child has an empty children
\* list, and the children of every main record were assigned exactly once.
C16_OneLevelAssignedOnce ==
    Returned =>
        \A m \in 1 .. Len(MainApps) :
            /\ resolved.assigned[m] = 1
            /\ \A k \in 1 .. Len(MainApps[m].children) :
                  MainApps[m].children[k].children = <<>>

\* a main record has a child that is itself named by another row
C16_Witness ==
    /\ Returned
    /\ \E m \in 1 .. Len(MainApps) :
          \E c \in ChildIds(m) :
              \E i \in Ids \ {c} : c \in NamedIds(table[i])

\* C29: in the children of a returned main record every fetched row occurs
\* at most once, also a row whose parent cell names the main record in
\* several items, and the children stand in the order of the fetched rows
\* (the listing is in row order, so their record ids increase).
C29_ChildOncePerRowInRowOrder ==
    Returned =>
        \A m \in 1 .. Len(MainApps) :
            \A j, k \in 1 .. Len(MainApps[m].children) :
                j < k => MainApps[m].children[j].record_id
                             < MainApps[m].children[k].record_id

\* rows 2 and 3 are the children of row 1, and two items of row 3's parent
\* cell name row 1
C29_Witness ==
    /\ Returned
    /\ Len(MainApps) = 1
    /\ MainApps[1].record_id = 1
    /\ Len(MainApps[1].children) = 2
    /\ MainApps[1].children[1].record_id = 2
    /\ MainApps[1].children[2].record_id = 3
    /\ Len(table[3].parent) = 2
    /\ \A k \in 1 .. 2 : 1 \in table[3].parent[k].record_ids

----------------------------------------------------------------------------
(* Properties of the notifications (SpecNotify) and of failures in main *)

Notified == dispatch.at = "done"

\* the attempts made for the i-th channel configuration
AttemptsFor(i) ==
    {k \in 1 .. Len(dispatch.attempts) : dispatch.attempts[k].config = i}

\* C17: the fan-out attempts delivery once for every configured channel with
\* a chat id, in configuration order, whatever the outcome of the attempts
\* before it.
C17_EveryChannelAttemptedInOrder ==
    Notified =>
        /\ \A i \in 1 .. Len(dispatch.notifications) :
              Cardinality(AttemptsFor(i)) =
                  IF dispatch.notifications[i].chat_id \in {None, ""}
                  THEN 0 ELSE 1
        /\ \A k \in 1 .. Len(dispatch.attempts) :
              /\ dispatch.attempts[k].message.chat_id =
                     dispatch.notifications[dispatch.attempts[k].config].chat_id
              /\ \A l \in k + 1 .. Len(dispatch.attempts) :
                    dispatch.attempts[k].config < dispatch.attempts[l].config

\* the first channel raised, the second one was attempted all the same
C17_Witness ==
    /\ Notified
    /\ Len(dispatch.attempts) = 2
    /\ dispatch.attempts[1].outcome = "exception"
    /\ dispatch.attempts[2].config = 2

\* C18 as stated: a release message carries the mention-all prefix when
\* mention_all is true, otherwise and only otherwise one mention per id of
\* mention_user_ids, no prefix when neither is set; the body is built from
\* app_name, stage and version.
C18_MentionAllElseUsers ==
    \A k \in 1 .. Len(dispatch.attempts) :
        LET config == dispatch.notifications[dispatch.attempts[k].config]
            message == dispatch.attempts[k].message
        IN  /\ message.mentions =
                   IF config.mention_all THEN <<"all">>
                   ELSE config.mention_user_ids
            /\ message.text = dispatch.event

\* the first channel configuration with mention_all is the c-th one
FirstMentionAll(c) ==
    /\ c \in 1 .. Len(dispatch.notifications)
    /\ dispatch.notifications[c].mention_all
    /\ \A j \in 1 .. c - 1 : ~dispatch.notifications[j].mention_all

C20_FailuresNeverAbort ==
    [][pc = "loop" =>
          IF idx <= Len(records)
          THEN /\ pc' = "loop"
               /\ idx' = idx + 1
               /\ records' = records
               /\ last'.record_id = records[idx].record_id
          ELSE pc' = "done"]_vars

\* the write for the first record failed, the lookup for the second one
\* failed, and the run went through both
C20_Witness ==
    /\ pc = "done"
    /\ Len(records) = 2
    /\ idx = 3
    /\ \E h \in released :
          h.record_id = records[1].record_id /\ ~h.stored /\ ~h.earlier
    /\ last.record_id = records[2].record_id
    /\ last.app_status = NoStatus

\* every write for the first record failed, its messages were sent, and the
\* second record is still to come
C20_WitnessAfterFailedWrites ==
    /\ pc = "loop"
    /\ Len(records) = 2
    /\ idx = 2
    /\ last.isSelectVersionOnline
    /\ last.sends # <<>>
    /\ \A k \in 1 .. Len(last.writes) : ~last.writes[k].success

----------------------------------------------------------------------------
(* Properties of the stage filter and of the write-back (Spec) *)

\* the main records get_records_by_status returns for the table as it is
ResolvedNow == get_records_by_status(get_all_records(table), InReview)

\* record r is among the records of this run
InRun(r) == \E j \in 1 .. Len(records) : records[j].record_id = r

\* C23: a main record whose stage is the excluded one is never looked up,
\* written or notified about; every other main record the resolver returns,
\* the ones without a stage included, is among the records the for loop
\* goes through.
C23_ExcludedStageNeverProcessed ==
    /\ (pc = "loop" /\ idx = 1) =>
          \A k \in 1 .. Len(ResolvedNow) :
              ResolvedNow[k].stage # ExcludedStage
                  <=> InRun(ResolvedNow[k].record_id)
    /\ \A j \in 1 .. Len(records) : records[j].stage # ExcludedStage
    /\ pc = "done" => idx = Len(records) + 1
    /\ \A i \in Ids :
          table[i].stage = ExcludedStage =>
              /\ last.record_id # i
              /\ \A k \in 1 .. Len(last.writes) : last.writes[k].record_id # i
              /\ \A h \in released : h.record_id # i
              /\ table[i].status = {InReview}
              /\ table[i].approval_time = NoneInt

\* row 1 is in the excluded stage and would have matched the store; row 2
\* has no stage and was released, with the stand-in stage in its messages
C23_Witness ==
    /\ pc = "done"
    /\ table[1].stage = ExcludedStage
    /\ TruthyInt(table[1].apple_id)
    /\ table[1].parent = <<>>
    /\ Len(records) = 1
    /\ last.record_id = 2
    /\ Rec.stage = None
    /\ ReleasedNow
    /\ last.sends[1].message.text[2] = UnknownStage

\* the updates of the pass that carry an approval time
TimedWrites ==
    {k \in 1 .. Len(last.writes) :
        "approval_time" \in DOMAIN last.writes[k].fields}

\* C24 as stated: every release writes the approval time to exactly one
\* record: to a child when the record has children, to the main record
\* otherwise.
C24_ApprovalTimeToExactlyOne ==
    ReleasedNow =>
        /\ Cardinality(TimedWrites) = 1
        /\ \A k \in TimedWrites :
              /\ last.writes[k].fields.approval_time = current_timestamp
              /\ IF Rec.children = <<>>
                 THEN last.writes[k].record_id = Rec.record_id
                 ELSE \E c \in 1 .. Len(Rec.children) :
                          last.writes[k].record_id = Rec.children[c].record_id

\* the target child of the pass: the child the first update went to
TargetChild == FirstWithVersion(Rec.children, last.local_latest_version)

\* C25 as stated: after the release of a record with a target child,
\* whatever updates succeeded, the stored main record is Released only if
\* the stored target child is Released with its approval time set.
C25_MainReleasedOnlyWithChild ==
    ( /\ ReleasedNow
      /\ Rec.children # <<>>
      /\ TargetChild # 0 )
    => LET child == Rec.children[TargetChild] IN
       table[Rec.record_id].status = {Released} =>
           /\ table[child.record_id].status = {Released}
           /\ TruthyInt(table[child.record_id].approval_time)

\* C27 as stated: on the release of a record with children, the child that
\* receives the update is the child get_latest_version took the latest
\* version from.
C27_WriteGoesToLatestChild ==
    ( /\ ReleasedNow
      /\ Rec.children # <<>> )
    => /\ Len(last.writes) = 2
       /\ LatestChild(Rec.children) # 0
       /\ last.writes[1].record_id
              = Rec.children[LatestChild(Rec.children)].record_id

----------------------------------------------------------------------------
(* Properties of the start of main (Spec) *)

\* C22: with the app id, the app secret or the wiki URL missing or empty, a
\* run ends at once: no rows are fetched, no lookup is made, no row is
\* written and no message is sent.
C22_MissingSettingAborts ==
    (\E k \in DOMAIN env : env[k] = None \/ env[k] = "") =>
        /\ pc # "loop"
        /\ records = <<>>
        /\ current_timestamp = NoneInt
        /\ last = NoEntry
        /\ released = {}
        /\ \A i \in Ids :
              /\ table[i].status = {InReview}
              /\ table[i].approval_time = NoneInt

\* only the app secret is missing, row 1 is an app a run would have looked
\* up, and the run is over
C22_Witness ==
    /\ pc = "done"
    /\ run = 1
    /\ env.FEISHU_APP_ID = "set"
    /\ env.FEISHU_APP_SECRET = None
    /\ env.FEISHU_WIKI_URL = "set"
    /\ Len(ResolvedNow) = 1
    /\ TruthyInt(ResolvedNow[1].apple_id)
    /\ ResolvedNow[1].children # <<>>
    /\ records = <<>>

----------------------------------------------------------------------------
(* Properties of the passes taken in any order (SpecOrder) *)

\* the updates, and the messages, made so far in the pass for record k
UpdatesDone(k) == SelectSeq(passes.done[k], LAMBDA st : st.op = "update")

SendsDone(k) == SelectSeq(passes.done[k], LAMBDA st : st.op = "send")

\* the table after the updates made so far, had they been made record by
\* record in the order of the for loop, each with the outcome it had
RECURSIVE Replay(_, _)
Replay(t, k) ==
    IF k > Len(records) THEN t
    ELSE LET requests == update_app_status(records[k],
                             get_latest_version(records[k]),
                             current_timestamp)
             n == Len(UpdatesDone(k))
         IN  Replay(apply_requests(t, SubSeq(requests, 1, n),
                                   [j \in 1 .. n |-> UpdatesDone(k)[j].outcome],
                                   1),
                    k + 1)

\* what the for loop decides for record k, given the lookup result it got
DecidedOnline(k) ==
    is_select_version_online(
        query_apple_app_status(passes.done[k][1].outcome),
        get_latest_version(records[k]))

\* the messages the for loop sends for record k when it releases it
MessagesFor(k) ==
    send_notifications(FEISHU_NOTIFICATIONS, 1, records[k].package_name,
                       IF TruthyStr(records[k].stage)
                       THEN records[k].stage ELSE UnknownStage,
                       get_latest_version(records[k]))

\* C21: with the passes of the records taken in any order and interleaved
\* request by request, every record gets the decision the for loop takes
\* for it, the rows hold what they hold after the same updates made record
\* by record in loop order, and the messages are the same set; rows shared
\* as a child by two records included.
C21_OrderDoesNotMatter ==
    passes.at # "idle" =>
        /\ table = Replay(passes.table0, 1)
        /\ \A k \in 1 .. Len(records) :
              passes.done[k] # <<>> =>
                  /\ Len(StepsOf(k)) > 1 <=> DecidedOnline(k)
                  /\ PassOver(k) =>
                        {SendsDone(k)[j].request :
                            j \in 1 .. Len(SendsDone(k))}
                        = IF DecidedOnline(k)
                          THEN {MessagesFor(k)[j] :
                                   j \in 1 .. Len(MessagesFor(k))}
                          ELSE {}

\* records 1 and 2 share row 3 as their target child; the pass for record
\* 2 is over while the pass for record 1 has updated the child and has its
\* own row still to update
C21_Witness ==
    /\ passes.at = "running"
    /\ Len(records) = 2
    /\ Len(passes.done[1]) = 2
    /\ passes.done[1][2].request.record_id = 3
    /\ passes.done[1][2].outcome
    /\ Len(passes.done[2]) = 5
    /\ passes.done[2][2].request.record_id = 3
    /\ passes.done[2][2].outcome
    /\ table[3].status = {Released}
    /\ table[2].status = {Released}
    /\ table[1].status = {InReview}

\* C26: in the pass for a released record the updates (the child's first,
\* the main record's last) are all made before the first message, and one
\* message goes to every configured chat, once, whether the updates
\* succeeded or failed.
C26_UpdatesBeforeNotifications ==
    passes.at # "idle" =>
        \A k \in 1 .. Len(records) :
            LET done == passes.done[k]
                requests == update_app_status(records[k],
                                get_latest_version(records[k]),
                                current_timestamp)
            IN  /\ \A i, j \in 1 .. Len(done) :
                      (done[i].op = "update" /\ done[j].op = "send")
                          => i < j
                /\ SendsDone(k) # <<>> =>
                      /\ Len(UpdatesDone(k)) = Len(requests)
                      /\ \A i \in 1 .. Len(requests) :
                            UpdatesDone(k)[i].request = requests[i]
                      /\ requests[Len(requests)].record_id
                             = records[k].record_id
                /\ (PassOver(k) /\ Len(done) > 1) =>
                      /\ Len(SendsDone(k)) = Len(FEISHU_NOTIFICATIONS)
                      /\ \A c \in 1 .. Len(FEISHU_NOTIFICATIONS) :
                            SendsDone(k)[c].request.chat_id
                                = FEISHU_NOTIFICATIONS[c].chat_id

\* both updates for record 1 failed and its two messages were sent
C26_Witness ==
    /\ passes.at # "idle"
    /\ Len(records) >= 1
    /\ Len(passes.done[1]) = 5
    /\ PassOver(1)
    /\ Len(UpdatesDone(1)) = 2
    /\ ~UpdatesDone(1)[1].outcome
    /\ ~UpdatesDone(1)[2].outcome
    /\ Len(SendsDone(1)) = 2
    /\ table = passes.table0

----------------------------------------------------------------------------
(* Properties of get_all_records (SpecPages) *)

\* the rows of pages 1 .. n in page order, as all_records keeps them
RECURSIVE RowsOfPages(_, _)
RowsOfPages(pages, n) ==
    IF n = 0 THEN <<>>
    ELSE RowsOfPages(pages, n - 1) \o kept_items(pages[n].items, 1)

\* every request is answered, no page is empty, and has_more is set on
\* every page but possibly the last
ListingServed ==
    /\ listing.at # "idle"
    /\ \A p \in 1 .. Len(listing.pages) :
          /\ listing.pages[p].success
          /\ listing.pages[p].items # <<>>
          /\ p < Len(listing.pages) => listing.pages[p].has_more

\* C28 as stated: get_all_records ends after at most one request per page,
\* never asks for a page twice, and returns the rows of all pages in page
\* order, whatever page tokens come with has_more.
C28_EachPageOnceAllRows ==
    ListingServed =>
        /\ Len(listing.requested) <= Len(listing.pages)
        /\ \A i, j \in 1 .. Len(listing.requested) :
              i # j => listing.requested[i] # listing.requested[j]
        /\ Len(listing.requested) = Len(listing.pages) =>
              listing.at = "returned"
        /\ listing.at = "returned" =>
              listing.all_records
                  = RowsOfPages(listing.pages, Len(listing.pages))

\* the same with a page token on every response that has has_more set on a
\* page before the last, and has_more unset on the last page: this holds
C28_TokensGivenEachPageOnce ==
    ( /\ ListingServed
      /\ \A p \in 1 .. Len(listing.pages) :
            IF p < Len(listing.pages)
            THEN TruthyInt(listing.pages[p].page_token)
            ELSE ~listing.pages[p].has_more )
    => /\ Len(listing.requested) <= Len(listing.pages)
       /\ \A i, j \in 1 .. Len(listing.requested) :
             i # j => listing.requested[i] # listing.requested[j]
       /\ Len(listing.requested) = Len(listing.pages) =>
             listing.at = "returned"
       /\ listing.at = "returned" =>
             listing.all_records
                 = RowsOfPages(listing.pages, Len(listing.pages))

====
